---- MODULE Spec2Model ----
(***************************************************************************)
(* The authenticated data-access layer of the dashboard (src/src/api.ts    *)
(* and its variant src/unnamed/part_001), the Setup / App login flow, the   *)
(* logout paths, and the views that issue power commands.                   *)
(*                                                                         *)
(* Strings that the code inspects character by character (the server       *)
(* address) are sequences of atoms.  The atoms are chosen so that the two  *)
(* tests the code makes, the regular expression /^https?:\/\// and         *)
(* startsWith('http'), depend on the first atom only:                      *)
(*   "http://" "https://"  lower-case schemes (match the regex)            *)
(*   "HTTP://"             an upper-case scheme (does not match the regex, *)
(*                         does not start with 'http')                     *)
(*   "http"                the letters h,t,t,p with no "://" after them    *)
(*   "host"                any other host text                             *)
(***************************************************************************)
EXTENDS Integers, Sequences, FiniteSets, Bags, TLC

VARIABLES
    storage,        \* localStorage: a function from the keys present to values
    route,          \* "app": a routed view is shown; "login": the /login path
    isConfigured,   \* App state (useState)
    isSubmitting,   \* Setup state (useState)
    setupError,     \* Setup state (useState)
    calls,          \* the asynchronous calls in flight, a bag of call records
    ev,             \* the step that was just taken and what it produced
    view            \* the state of the mounted power-command view

vars == <<storage, route, isConfigured, isSubmitting, setupError, calls, ev, view>>

----------------------------------------------------------------------------
(* Bounds *)

MaxInFlight == 2    \* calls in flight at once
MaxAddrLen == 2     \* atoms in an address typed into Setup

----------------------------------------------------------------------------
(* Values *)

Atoms == {"http://", "https://", "HTTP://", "http", "host"}
Tokens == {"t1", "t2"}
Usernames == {"admin"}
Passwords == {"secret"}
NoError == "<undefined>"
NoHeader == "<no Authorization header>"

RECURSIVE SeqsUpTo(_, _)
SeqsUpTo(S, n) ==
    IF n = 0 THEN {<<>>}
    ELSE LET shorter == SeqsUpTo(S, n - 1)
         IN  shorter \cup {Append(s, a) : s \in {t \in shorter : Len(t) = n - 1}, a \in S}

\* What a user can type into the address field.
AddrInputs == SeqsUpTo(Atoms, MaxAddrLen)

\* The addresses used where only "empty or not, scheme or not" matters.
SessionAddrs == {<<"host">>, <<"https://", "host">>, <<"http://">>}

----------------------------------------------------------------------------
(* localStorage *)

Has(st, k) == k \in DOMAIN st
setItem(st, k, v) == [x \in (DOMAIN st) \cup {k} |-> IF x = k THEN v ELSE st[x]]
removeItem(st, k) == [x \in (DOMAIN st) \ {k} |-> st[x]]

\* A stored bearerToken that the code's truthiness test accepts.
HasToken(st) == Has(st, "bearerToken") /\ st["bearerToken"] # ""

----------------------------------------------------------------------------
(* Address handling *)

\* Setup.handleSubmit: apiUrl.replace(/^https?:\/\//, '')
cleanApiUrl(apiUrl) ==
    IF apiUrl # <<>> /\ Head(apiUrl) \in {"http://", "https://"}
    THEN Tail(apiUrl)
    ELSE apiUrl

\* apiUrl.startsWith('http')
startsWithHttp(apiUrl) ==
    apiUrl # <<>> /\ Head(apiUrl) \in {"http://", "https://", "http"}

\* getApiBaseUrl: throws when the address is absent or empty.
getApiBaseUrl(st) ==
    IF ~Has(st, "apiUrl") \/ st["apiUrl"] = <<>>
    THEN [thrown |-> TRUE, message |-> "API URL is not configured", url |-> <<>>]
    ELSE [thrown |-> FALSE, message |-> NoError,
          url |-> IF startsWithHttp(st["apiUrl"]) THEN st["apiUrl"]
                  ELSE <<"https://">> \o st["apiUrl"]]

----------------------------------------------------------------------------
(* logout *)

\* api.logout: removes the token and the address.
logout(st) == removeItem(removeItem(st, "bearerToken"), "apiUrl")

\* UserDropdown.onLogout: removes the token.
onLogout(st) == removeItem(st, "bearerToken")

----------------------------------------------------------------------------
(* What the backend can answer *)

\* A response to an authenticated call.  body is the shape of the JSON text:
\*   "unparsable"    response.json() rejects
\*   "null"          the JSON value null
\*   "objDataArray"  an object whose data field is an array
\*   "array"         an array
\*   "objMessage"    an object with a non-empty message field
\*   "objOther"      any other object
FetchResponses ==
    {[kind |-> "network", status |-> 0, body |-> "none", statusText |-> ""]}
    \cup {[kind |-> "http", status |-> 401, body |-> "objOther", statusText |-> "Unauthorized"]}
    \cup {[kind |-> "http", status |-> 500, body |-> "unparsable", statusText |-> ""]}
    \cup {[kind |-> "http", status |-> 500, body |-> b, statusText |-> "Internal Server Error"] :
             b \in {"unparsable", "null", "objMessage", "objOther"}}
    \cup {[kind |-> "http", status |-> 200, body |-> b, statusText |-> "OK"] :
             b \in {"unparsable", "null", "objDataArray", "array", "objOther"}}

\* A response to the login request.  body:
\*   "unparsable", "null", "objOther" as above
\*   "dataNoToken"   {data: {}}
\*   "dataToken"     {data: {token: <token>}}, the token possibly ""
LoginResponses ==
    {[kind |-> "network", status |-> 0, body |-> "none", token |-> ""]}
    \cup {[kind |-> "http", status |-> s, body |-> b, token |-> ""] :
             s \in {200, 401},
             b \in {"unparsable", "null", "objOther", "dataNoToken", "dataToken"}}
    \cup {[kind |-> "http", status |-> s, body |-> "dataToken", token |-> t] :
             s \in {200, 401}, t \in Tokens}

\* The responses the views are checked with: one of each class.
ViewResponses ==
    {r \in FetchResponses :
        \/ r.kind = "network"
        \/ r.status = 401
        \/ r.status = 500 /\ r.body = "objMessage"
        \/ r.status = 200 /\ r.body \in {"objDataArray", "objOther"}}

ResponseOk(resp) == resp.kind = "http" /\ resp.status \in 200..299

----------------------------------------------------------------------------
(* fetchWithAuth *)

Returned(data, error) == [outcome |-> "returned", data |-> data, error |-> error]
Rejected(error) == [outcome |-> "rejected", data |-> "none", error |-> error]

\* if (x.error): undefined and '' are falsy.
Truthy(e) == e \notin {NoError, ""}

\* Variant: the Authorization header is built whether or not a token is
\* stored (`Bearer ${bearerToken}` with a null token).
fetchWithAuthBeginAlwaysHeader(st) ==
    LET base == getApiBaseUrl(st)
    IN  IF base.thrown
        THEN [sent |-> FALSE, auth |-> NoHeader, result |-> Rejected(base.message)]
        ELSE [sent |-> TRUE,
              auth |-> IF HasToken(st) THEN st["bearerToken"] ELSE "null",
              result |-> Returned("none", NoError)]

\* Lines 70-91: resolve the base address (outside the try block), read the
\* token, build the headers, call fetch.
fetchWithAuthBegin(st) ==
    LET base == getApiBaseUrl(st)
    IN  IF base.thrown
        THEN [sent |-> FALSE, auth |-> NoHeader, result |-> Rejected(base.message)]
        ELSE [sent |-> TRUE,
              auth |-> IF HasToken(st) THEN st["bearerToken"] ELSE NoHeader,
              result |-> Returned("none", NoError)]

\* Variant: a 401 logs out and sends the request again.
on401Retry(st) ==
    [storage |-> logout(st),
     result |-> [outcome |-> "retry", data |-> "none", error |-> NoError]]

\* Lines 93-97: a 401 logs out and returns an error result.
on401(st) ==
    [storage |-> logout(st),
     result |-> Returned("emptyObject", "Unauthorized - Logged out")]

\* Lines 99-102 and the catch block: the message of a non-success status.
notOkMessage(resp) ==
    CASE resp.body = "unparsable" ->
             IF resp.statusText # "" THEN resp.statusText ELSE "API request failed"
      [] resp.body = "objMessage" -> "server message"
      [] resp.body = "null" -> "TypeError: cannot read properties of null"
      [] OTHER -> "API request failed"

\* Variant: every non-success status logs out, not only 401.
fetchWithAuthSettleLogoutOnError(st, resp) ==
    IF resp.kind = "network"
    THEN [storage |-> st, result |-> Returned("emptyObject", "Failed to fetch")]
    ELSE IF resp.status = 401
    THEN on401(st)
    ELSE IF ~ResponseOk(resp)
    THEN [storage |-> logout(st), result |-> Returned("emptyObject", notOkMessage(resp))]
    ELSE IF resp.body = "unparsable"
    THEN [storage |-> st, result |-> Returned("emptyObject", "SyntaxError: unexpected token")]
    ELSE [storage |-> st, result |-> Returned(resp.body, NoError)]

\* Lines 83-112: what the call does with the outcome of fetch.
fetchWithAuthSettle(st, resp) ==
    IF resp.kind = "network"
    THEN [storage |-> st, result |-> Returned("emptyObject", "Failed to fetch")]
    ELSE IF resp.status = 401
    THEN on401(st)
    ELSE IF ~ResponseOk(resp)
    THEN [storage |-> st, result |-> Returned("emptyObject", notOkMessage(resp))]
    ELSE IF resp.body = "unparsable"
    THEN [storage |-> st, result |-> Returned("emptyObject", "SyntaxError: unexpected token")]
    ELSE [storage |-> st, result |-> Returned(resp.body, NoError)]

----------------------------------------------------------------------------
(* The exported operations, as functions of fetchWithAuth's result *)

\* Variant: the payload is unwrapped without the Array.isArray test, so a body
\* of another shape gives data that is not an array, with no error.
fetchUcpSystemsUnchecked(fw) ==
    IF fw.outcome = "rejected" THEN Returned("emptyArray", fw.error)
    ELSE IF Truthy(fw.error) THEN Returned("emptyArray", fw.error)
    ELSE IF fw.data # "objDataArray"
    THEN Returned("undefined", NoError)
    ELSE Returned("array", NoError)

\* api.ts fetchUcpSystems: the whole body is inside try/catch.
fetchUcpSystems(fw) ==
    IF fw.outcome = "rejected" THEN Returned("emptyArray", fw.error)
    ELSE IF Truthy(fw.error) THEN Returned("emptyArray", fw.error)
    ELSE IF fw.data # "objDataArray"
    THEN Returned("emptyArray", "API response 'data' is not an array")
    ELSE Returned("array", NoError)

\* api.ts fetchComputeDevices: flattens the systems.
fetchComputeDevices(fw) ==
    LET systemsResponse == fetchUcpSystems(fw)
    IN  IF Truthy(systemsResponse.error)
        THEN Returned("emptyArray", systemsResponse.error)
        ELSE Returned("array", NoError)

\* part_001 fetchComputeDevices: reads the devices endpoint; no try/catch.
fetchComputeDevicesDirect(fw) ==
    IF fw.outcome = "rejected" THEN fw
    ELSE IF Truthy(fw.error) THEN Returned("emptyArray", fw.error)
    ELSE IF fw.data # "objDataArray"
    THEN Returned("emptyArray", "Invalid API response format")
    ELSE Returned("array", NoError)

\* setComputePowerState: returns fetchWithAuth's promise.
setComputePowerState(fw) == fw

\* part_001 fetchFirmwareCompliance: try/catch around fetchComputeDevices.
fetchFirmwareCompliance(fw) ==
    LET computeDevicesResponse == fetchComputeDevicesDirect(fw)
    IN  IF computeDevicesResponse.outcome = "rejected" \/ Truthy(computeDevicesResponse.error)
        THEN Returned("undefined", computeDevicesResponse.error)
        ELSE Returned("summary", NoError)

\* part_001 fetchRecentAlerts: try/catch around fetchComputeDevices.
fetchRecentAlerts(fw) ==
    LET computeResponse == fetchComputeDevicesDirect(fw)
    IN  IF computeResponse.outcome = "rejected" \/ Truthy(computeResponse.error)
        THEN Returned("emptyArray", computeResponse.error)
        ELSE Returned("array", NoError)

\* Variant: a body that is not an array is taken as "no tasks", without error.
fetchActiveTasksSilentEmpty(fw) ==
    IF fw.outcome = "rejected" THEN Returned("emptyArray", fw.error)
    ELSE IF Truthy(fw.error) THEN Returned("emptyArray", fw.error)
    ELSE IF fw.data # "array"
    THEN Returned("emptyArray", NoError)
    ELSE Returned("array", NoError)

\* part_001 fetchActiveTasks: try/catch; the body itself must be an array.
fetchActiveTasks(fw) ==
    IF fw.outcome = "rejected" THEN Returned("emptyArray", fw.error)
    ELSE IF Truthy(fw.error) THEN Returned("emptyArray", fw.error)
    ELSE IF fw.data # "array"
    THEN Returned("emptyArray", "Invalid API response: Expected an array but received something else")
    ELSE Returned("array", NoError)

Ops == {"fetchUcpSystems", "fetchComputeDevices", "fetchComputeDevicesDirect",
        "fetchFirmwareCompliance", "fetchRecentAlerts", "fetchActiveTasks",
        "setComputePowerState"}

OpResult(op, fw) ==
    CASE op = "fetchUcpSystems" -> fetchUcpSystems(fw)
      [] op = "fetchComputeDevices" -> fetchComputeDevices(fw)
      [] op = "fetchComputeDevicesDirect" -> fetchComputeDevicesDirect(fw)
      [] op = "fetchFirmwareCompliance" -> fetchFirmwareCompliance(fw)
      [] op = "fetchRecentAlerts" -> fetchRecentAlerts(fw)
      [] op = "fetchActiveTasks" -> fetchActiveTasks(fw)
      [] op = "setComputePowerState" -> setComputePowerState(fw)

----------------------------------------------------------------------------
(* authenticate *)

\* Lines 120-126: resolve the base address (inside the try block) and post the
\* credentials; no token is attached.
authenticateBegin(st) ==
    LET base == getApiBaseUrl(st)
    IN  IF base.thrown
        THEN [sent |-> FALSE, result |-> [success |-> FALSE, message |-> base.message]]
        ELSE [sent |-> TRUE, result |-> [success |-> FALSE, message |-> NoError]]

\* Variant: the token test of line 129 is missing, so whatever data.token
\* holds is stored and success is reported.
authenticateSettleNoTokenCheck(st, resp) ==
    IF resp.kind = "network"
    THEN [storage |-> st, result |-> [success |-> FALSE, message |-> "Failed to fetch"]]
    ELSE IF resp.body = "unparsable"
    THEN [storage |-> st,
          result |-> [success |-> FALSE, message |-> "SyntaxError: unexpected token"]]
    ELSE IF resp.body \in {"null", "objOther"}
    THEN [storage |-> st,
          result |-> [success |-> FALSE, message |-> "TypeError: cannot read properties"]]
    ELSE [storage |-> setItem(st, "bearerToken",
                              IF resp.body = "dataToken" THEN resp.token ELSE "undefined"),
          result |-> [success |-> TRUE, message |-> NoError]]

\* Lines 128-138: parse the body, take data.token, store it.  The HTTP status
\* is not read.
authenticateSettle(st, resp) ==
    IF resp.kind = "network"
    THEN [storage |-> st, result |-> [success |-> FALSE, message |-> "Failed to fetch"]]
    ELSE IF resp.body = "unparsable"
    THEN [storage |-> st,
          result |-> [success |-> FALSE, message |-> "SyntaxError: unexpected token"]]
    ELSE IF resp.body = "null"
    THEN [storage |-> st,
          result |-> [success |-> FALSE, message |-> "TypeError: cannot read properties of null"]]
    ELSE IF resp.body # "dataToken" \/ resp.token = ""
    THEN [storage |-> st,
          result |-> [success |-> FALSE,
                      message |-> "Invalid authentication response: No token received."]]
    ELSE [storage |-> setItem(st, "bearerToken", resp.token),
          result |-> [success |-> TRUE, message |-> NoError]]

----------------------------------------------------------------------------
(* Calls in flight *)

InFlight == BagCardinality(calls)
CanStart == InFlight < MaxInFlight
Add(c) == calls (+) SetToBag({c})
Remove(c) == calls (-) SetToBag({c})
CallsInFlight == BagToSet(calls)

NoView == [kind |-> "none"]
NoRequest == [begun |-> FALSE, sent |-> FALSE, auth |-> NoHeader]
Request(b) == [begun |-> TRUE, sent |-> b.sent, auth |-> b.auth]

AuthCall(caller, cfg) == [op |-> "authenticate", caller |-> caller, cfg |-> cfg]

\* sent: the requests fetch has been asked to send for this call.
ApiCall(op) == [op |-> op, sent |-> 1]

\* Views are routed only once App is configured and the path has a route.
ViewsMounted == isConfigured /\ route = "app"

----------------------------------------------------------------------------
(* Setup and App *)

\* Variant: the password is stored beside the username.
handleSubmitPersistWithPassword(st, clean, user, pw) ==
    setItem(setItem(setItem(st, "apiUrl", clean), "username", user), "password", pw)

\* Setup.handleSubmit lines 35-36: what the submission writes to localStorage.
handleSubmitPersist(st, clean, user, pw) ==
    setItem(setItem(st, "apiUrl", clean), "username", user)

\* Setup.handleSubmit up to the first await that leaves the event loop: store
\* the cleaned address and the username, then call authenticate.  When
\* authenticate fails before sending, the rest of handleSubmit follows at once.
SetupSubmit(addr, user, pw) ==
    /\ ~isConfigured /\ ~isSubmitting
    /\ addr # <<>>
    /\ LET clean == cleanApiUrl(addr)
           st1 == handleSubmitPersist(storage, clean, user, pw)
           b == authenticateBegin(st1)
           cfg == [apiUrl |-> clean, username |-> user, password |-> pw]
       IN  /\ storage' = st1
           /\ IF b.sent
              THEN /\ CanStart
                   /\ calls' = Add(AuthCall("Setup", cfg))
                   /\ isSubmitting' = TRUE
                   /\ setupError' = ""
              ELSE /\ calls' = calls
                   /\ isSubmitting' = FALSE
                   /\ setupError' = b.result.message
           /\ ev' = [kind |-> "submit", input |-> addr, sent |-> b.sent]
    /\ UNCHANGED <<route, isConfigured, view>>

\* The login response arrives.  For Setup's call the rest of handleSubmit runs:
\* on success onSave is App.handleSetup, which stores the address again and
\* calls authenticate a second time.  For App's call the rest of handleSetup
\* runs.
LoginRespond(c, resp) ==
    /\ c.op = "authenticate"
    /\ LET r == authenticateSettle(storage, resp)
           st2 == setItem(r.storage, "apiUrl", c.cfg.apiUrl)
           b == authenticateBegin(st2)
       IN  /\ IF c.caller = "Setup"
              THEN IF r.result.success
                   THEN /\ storage' = st2
                        /\ calls' = IF b.sent
                                    THEN Remove(c) (+) SetToBag({AuthCall("App", c.cfg)})
                                    ELSE Remove(c)
                        /\ isSubmitting' = FALSE
                        /\ UNCHANGED <<setupError, isConfigured>>
                   ELSE /\ storage' = r.storage
                        /\ calls' = Remove(c)
                        /\ isSubmitting' = FALSE
                        /\ setupError' = r.result.message
                        /\ UNCHANGED isConfigured
              ELSE /\ storage' = r.storage
                   /\ calls' = Remove(c)
                   /\ isConfigured' = (r.result.success \/ isConfigured)
                   /\ UNCHANGED <<isSubmitting, setupError>>
           /\ ev' = [kind |-> "login", caller |-> c.caller, resp |-> resp,
                     result |-> r.result, before |-> storage]
    /\ UNCHANGED <<route, view>>

----------------------------------------------------------------------------
(* Authenticated calls made by whatever view is mounted *)

\* A view calls one of the exported operations.
StartCall(op) ==
    /\ ViewsMounted
    /\ LET b == fetchWithAuthBegin(storage)
       IN  IF b.sent
           THEN /\ CanStart
                /\ calls' = Add(ApiCall(op))
                /\ ev' = [kind |-> "request", op |-> op, req |-> Request(b)]
           ELSE /\ calls' = calls
                /\ ev' = [kind |-> "settled", op |-> op, responded |-> FALSE,
                          sent |-> 0, fw |-> b.result, result |-> OpResult(op, b.result),
                          before |-> storage, req |-> Request(b)]
    /\ UNCHANGED <<storage, route, isConfigured, isSubmitting, setupError, view>>

\* The outcome of fetch arrives for a call in flight.
Respond(c, resp) ==
    /\ c.op \in Ops
    /\ LET s == fetchWithAuthSettle(storage, resp)
       IN  /\ storage' = s.storage
           /\ IF s.result.outcome = "retry"
              THEN /\ calls' = Remove(c) (+) SetToBag({[c EXCEPT !.sent = @ + 1]})
                   /\ ev' = [kind |-> "retry", op |-> c.op, responded |-> TRUE,
                             resp |-> resp]
              ELSE /\ calls' = Remove(c)
                   /\ ev' = [kind |-> "settled", op |-> c.op, responded |-> TRUE,
                             resp |-> resp, sent |-> c.sent, fw |-> s.result,
                             result |-> OpResult(c.op, s.result), before |-> storage]
    /\ UNCHANGED <<route, isConfigured, isSubmitting, setupError, view>>

----------------------------------------------------------------------------
(* The state of the views that issue power commands *)

Devices == {"d1", "d2"}
Power == {"on", "off"}
PowerActions == {"ON", "OFF", "CYCLE"}

\* A device list: the powerStatus of each device in it ([] is <<>>).
DeviceLists == {<<>>} \cup [Devices -> Power]

\* What a systems response holds for the view's systemId.
LoadPayloads == {[found |-> FALSE, devices |-> <<>>]}
                \cup {[found |-> TRUE, devices |-> l] : l \in DeviceLists}

\* ComputeDeviceList's useState values.  openMenus and actionInProgress are
\* read for truthiness only: each is the set of device ids mapped to true.
InitialList ==
    [mounted |-> FALSE, computeDevices |-> <<>>, loading |-> TRUE, error |-> "",
     openMenus |-> {}, actionInProgress |-> {}]

\* ComputeDeviceDetails' useState values (error null is "").
InitialDetails == [isPowerActionInProgress |-> FALSE, error |-> ""]

InitialViews == [kind |-> "views", list |-> InitialList, details |-> InitialDetails]

\* A route change or page load destroys the view instances.
Unmount(v) == IF v.kind = "none" THEN v ELSE InitialViews

----------------------------------------------------------------------------
(* Logout paths and page load *)

\* Dashboard's logout button: logout(); navigate('/login').
DashboardLogout ==
    /\ ViewsMounted
    /\ storage' = logout(storage)
    /\ route' = "login"
    /\ ev' = [kind |-> "logout", path |-> "dashboard", before |-> storage]
    /\ view' = Unmount(view)
    /\ UNCHANGED <<isConfigured, isSubmitting, setupError, calls>>

\* UserDropdown's logout item: onLogout.
UserDropdownLogout ==
    /\ ViewsMounted
    /\ storage' = onLogout(storage)
    /\ route' = "login"
    /\ ev' = [kind |-> "logout", path |-> "userDropdown", before |-> storage]
    /\ view' = Unmount(view)
    /\ UNCHANGED <<isConfigured, isSubmitting, setupError, calls>>

\* The page is loaded afresh (a reload by the user, or the navigation that
\* logout starts with window.location.href): every call in flight is dropped
\* and App and Setup take their initial state.
PageLoad(r) ==
    /\ route' = r
    /\ isConfigured' = HasToken(storage)
    /\ isSubmitting' = FALSE
    /\ setupError' = ""
    /\ calls' = EmptyBag
    /\ ev' = [kind |-> "load"]
    /\ view' = Unmount(view)
    /\ UNCHANGED storage

----------------------------------------------------------------------------
(* The session specification: Setup, login, calls, logout *)

EmptyStorage == [k \in {} |-> ""]

Init ==
    /\ storage = EmptyStorage
    /\ route = "app"
    /\ isConfigured = FALSE
    /\ isSubmitting = FALSE
    /\ setupError = ""
    /\ calls = EmptyBag
    /\ ev = [kind |-> "init"]
    /\ view = NoView

Next ==
    \/ \E a \in SessionAddrs, u \in Usernames, p \in Passwords : SetupSubmit(a, u, p)
    \/ \E c \in CallsInFlight, resp \in LoginResponses : LoginRespond(c, resp)
    \/ \E op \in Ops : StartCall(op)
    \/ \E c \in CallsInFlight, resp \in FetchResponses : Respond(c, resp)
    \/ DashboardLogout
    \/ UserDropdownLogout
    \/ \E r \in {"app", "login"} : PageLoad(r)

Spec == Init /\ [][Next]_vars

----------------------------------------------------------------------------
(* ComputeDeviceList *)

\* fetchInfrastructureStatus is imported from api but is in none of the source
\* files: it is taken to be the list-systems operation.
fetchInfrastructureStatus(fw) == fetchUcpSystems(fw)

\* loadData, lines 31-48, once fetchInfrastructureStatus has settled.
loadDataSettled(l, res, payload) ==
    LET l1 == IF res.outcome = "rejected"
              THEN [l EXCEPT !.error = "Failed to load compute devices"]
              ELSE IF Truthy(res.error) THEN [l EXCEPT !.error = res.error]
              ELSE IF ~payload.found THEN [l EXCEPT !.error = "System not found"]
              ELSE [l EXCEPT !.computeDevices = payload.devices]
    IN  [l1 EXCEPT !.loading = FALSE]

\* handlePowerAction line 58 and the Dropdown's onSelect (line 99), both with
\* the state of the render that is on screen.
handlePowerActionClick(l, d) ==
    [l EXCEPT !.actionInProgress = l.actionInProgress \cup {d},
              !.openMenus = l.openMenus \ {d}]

\* handlePowerAction lines 68-71: the finally block spreads the
\* actionInProgress and openMenus that the handler closed over (c.ap, c.om).
handlePowerActionFinally(l, c) ==
    [l EXCEPT !.actionInProgress = c.ap \ {c.dev}, !.openMenus = c.om \ {c.dev}]

\* Variant: a successful command patches the local powerStatus at once.
handlePowerActionSettledOptimistic(l, c, res) ==
    IF res.outcome = "rejected"
    THEN handlePowerActionFinally([l EXCEPT !.error = "Failed to execute power action"], c)
    ELSE IF Truthy(res.error)
    THEN handlePowerActionFinally([l EXCEPT !.error = res.error], c)
    ELSE IF c.dev \in DOMAIN l.computeDevices
    THEN [l EXCEPT !.computeDevices[c.dev] = IF c.action = "OFF" THEN "off" ELSE "on"]
    ELSE l

\* handlePowerAction lines 60-67, once setComputePowerState has settled: an
\* error goes to setError and the finally block; without error the handler
\* goes on to await loadData and touches no state yet.
handlePowerActionSettled(l, c, res) ==
    IF res.outcome = "rejected"
    THEN handlePowerActionFinally([l EXCEPT !.error = "Failed to execute power action"], c)
    ELSE IF Truthy(res.error)
    THEN handlePowerActionFinally([l EXCEPT !.error = res.error], c)
    ELSE l

\* The list is on screen: neither the Spinner nor the Alert replaces it.
ListRendered ==
    /\ view.kind = "views" /\ view.list.mounted
    /\ ~view.list.loading /\ view.list.error = ""

\* isDisabled of the three DropdownItems, lines 119, 126, 133.
ItemEnabled(status, action) ==
    IF action = "ON" THEN status # "on" ELSE status # "off"

\* setState on an instance that is gone changes nothing.
SetList(l) == [view EXCEPT !.list = IF view.list.mounted THEN l ELSE view.list]

PowerCall(viewName, d, action, ap, om) ==
    [op |-> "setComputePowerState", sent |-> 1, view |-> viewName, dev |-> d,
     action |-> action, ap |-> ap, om |-> om]

\* A loadData call: purpose "poll" (mount or timer) or "refresh" (awaited by
\* handlePowerAction, whose closure it carries).
LoadCall(purpose, d, ap, om) ==
    [op |-> "fetchInfrastructureStatus", sent |-> 1, view |-> "list",
     purpose |-> purpose, dev |-> d, ap |-> ap, om |-> om]

PollCall == LoadCall("poll", "none", {}, {})

\* loadData is called with list state l: the request goes out, or
\* fetchInfrastructureStatus fails at once and loadData finishes in the same turn.
LoadDataBegin(l, kind) ==
    LET b == fetchWithAuthBegin(storage)
    IN  /\ IF b.sent
           THEN /\ CanStart
                /\ calls' = Add(PollCall)
                /\ view' = [view EXCEPT !.list = l]
           ELSE /\ calls' = calls
                /\ view' = [view EXCEPT !.list =
                               loadDataSettled(l, fetchInfrastructureStatus(b.result),
                                               [found |-> FALSE, devices |-> <<>>])]
        /\ ev' = [kind |-> kind, req |-> Request(b),
                  devicesBefore |-> l.computeDevices]

\* useEffect, lines 51-55: the view mounts, loads and starts its interval.
ListMount ==
    /\ ViewsMounted /\ view.kind = "views" /\ ~view.list.mounted
    /\ LoadDataBegin([InitialList EXCEPT !.mounted = TRUE], "mount")
    /\ UNCHANGED <<storage, route, isConfigured, isSubmitting, setupError>>

\* The 30-second interval fires.
ListTick ==
    /\ view.kind = "views" /\ view.list.mounted
    /\ LoadDataBegin(view.list, "tick")
    /\ UNCHANGED <<storage, route, isConfigured, isSubmitting, setupError>>

\* The MenuToggle of device d is clicked, lines 101-113.
ListToggleMenu(d) ==
    /\ ListRendered
    /\ d \in DOMAIN view.list.computeDevices
    /\ d \notin view.list.actionInProgress
    /\ view' = [view EXCEPT !.list.openMenus =
                   IF d \in @ THEN @ \ {d} ELSE @ \cup {d}]
    /\ ev' = [kind |-> "toggle", dev |-> d, req |-> NoRequest,
              devicesBefore |-> view.list.computeDevices]
    /\ UNCHANGED <<storage, route, isConfigured, isSubmitting, setupError, calls>>

\* A power item of device d is clicked in its open menu: handlePowerAction
\* runs up to its await.
ListPowerClick(d, action) ==
    /\ ListRendered
    /\ d \in DOMAIN view.list.computeDevices
    /\ d \in view.list.openMenus
    /\ ItemEnabled(view.list.computeDevices[d], action)
    /\ LET b == fetchWithAuthBegin(storage)
           c == PowerCall("list", d, action, view.list.actionInProgress, view.list.openMenus)
           l1 == handlePowerActionClick(view.list, d)
       IN  /\ IF b.sent
              THEN /\ CanStart
                   /\ calls' = Add(c)
                   /\ view' = [view EXCEPT !.list = l1]
              ELSE /\ calls' = calls
                   /\ view' = [view EXCEPT !.list =
                                  handlePowerActionSettled(l1, c, setComputePowerState(b.result))]
           /\ ev' = [kind |-> "powerClick", view |-> "list", dev |-> d, action |-> action,
                     req |-> Request(b), devicesBefore |-> view.list.computeDevices]
    /\ UNCHANGED <<storage, route, isConfigured, isSubmitting, setupError>>

\* setComputePowerState settles for a command of the list view.  Without
\* error the handler calls loadData in the same turn.
ListPowerRespond(c, resp) ==
    /\ c.op = "setComputePowerState" /\ c.view = "list"
    /\ LET s == fetchWithAuthSettle(storage, resp)
           res == setComputePowerState(s.result)
           ok == res.outcome = "returned" /\ ~Truthy(res.error)
           l1 == handlePowerActionSettled(view.list, c, res)
           b == fetchWithAuthBegin(s.storage)
       IN  /\ storage' = s.storage
           /\ IF ~ok
              THEN /\ calls' = Remove(c)
                   /\ view' = SetList(l1)
              ELSE IF b.sent
              THEN /\ calls' = Remove(c) (+) SetToBag({LoadCall("refresh", c.dev, c.ap, c.om)})
                   /\ view' = SetList(l1)
              ELSE /\ calls' = Remove(c)
                   /\ view' = SetList(handlePowerActionFinally(
                                  loadDataSettled(l1, fetchInfrastructureStatus(b.result),
                                                  [found |-> FALSE, devices |-> <<>>]), c))
           /\ ev' = [kind |-> "powerDone", view |-> "list", dev |-> c.dev,
                     res |-> res, req |-> IF ok THEN Request(b) ELSE NoRequest,
                     devicesBefore |-> view.list.computeDevices]
    /\ UNCHANGED <<route, isConfigured, isSubmitting, setupError>>

\* fetchInfrastructureStatus settles for a loadData call; a refresh is
\* followed by the finally block of the handlePowerAction that awaited it.
ListLoadRespond(c, resp, payload) ==
    /\ c.op = "fetchInfrastructureStatus"
    /\ LET s == fetchWithAuthSettle(storage, resp)
           res == fetchInfrastructureStatus(s.result)
           l1 == loadDataSettled(view.list, res, payload)
           l2 == IF c.purpose = "refresh" THEN handlePowerActionFinally(l1, c) ELSE l1
       IN  /\ Truthy(res.error) => payload = [found |-> FALSE, devices |-> <<>>]
           /\ storage' = s.storage
           /\ calls' = Remove(c)
           /\ view' = SetList(l2)
           /\ ev' = [kind |-> "loadDone", purpose |-> c.purpose, res |-> res,
                     payload |-> payload, req |-> NoRequest,
                     devicesBefore |-> view.list.computeDevices]
    /\ UNCHANGED <<route, isConfigured, isSubmitting, setupError>>

----------------------------------------------------------------------------
(* ComputeDeviceDetails *)

DetailsDevice == "d1"

\* handlePowerAction lines 72-73.
detailsPowerActionClick(dt) == [dt EXCEPT !.error = "", !.isPowerActionInProgress = TRUE]

\* handlePowerAction lines 75-83, once setComputePowerState has settled.
detailsPowerActionSettled(dt, res) ==
    [dt EXCEPT !.error = IF res.outcome = "rejected" \/ Truthy(res.error)
                         THEN "Failed to perform power action" ELSE @,
               !.isPowerActionInProgress = FALSE]

\* A power item of the details modal is clicked; the items are disabled and
\* the dropdown is replaced by a spinner while isPowerActionInProgress.
DetailsPowerClick(action) ==
    /\ ViewsMounted /\ view.kind = "views"
    /\ ~view.details.isPowerActionInProgress
    /\ LET b == fetchWithAuthBegin(storage)
           d1 == detailsPowerActionClick(view.details)
       IN  /\ IF b.sent
              THEN /\ CanStart
                   /\ calls' = Add(PowerCall("details", DetailsDevice, action, {}, {}))
                   /\ view' = [view EXCEPT !.details = d1]
              ELSE /\ calls' = calls
                   /\ view' = [view EXCEPT !.details =
                                  detailsPowerActionSettled(d1, setComputePowerState(b.result))]
           /\ ev' = [kind |-> "powerClick", view |-> "details", dev |-> DetailsDevice,
                     action |-> action, req |-> Request(b),
                     devicesBefore |-> view.list.computeDevices]
    /\ UNCHANGED <<storage, route, isConfigured, isSubmitting, setupError>>

\* setComputePowerState settles for a command of the details modal.
DetailsPowerRespond(c, resp) ==
    /\ c.op = "setComputePowerState" /\ c.view = "details"
    /\ LET s == fetchWithAuthSettle(storage, resp)
           res == setComputePowerState(s.result)
       IN  /\ storage' = s.storage
           /\ calls' = Remove(c)
           /\ view' = IF ViewsMounted
                      THEN [view EXCEPT !.details = detailsPowerActionSettled(@, res)]
                      ELSE view
           /\ ev' = [kind |-> "powerDone", view |-> "details", dev |-> c.dev,
                     res |-> res, req |-> NoRequest,
                     devicesBefore |-> view.list.computeDevices]
    /\ UNCHANGED <<route, isConfigured, isSubmitting, setupError>>

----------------------------------------------------------------------------
(* The view specification: a configured session with the power-command views *)

ConfiguredStorage ==
    [apiUrl |-> <<"host">>, bearerToken |-> "t1", username |-> "admin"]

InitView ==
    /\ storage = ConfiguredStorage
    /\ route = "app"
    /\ isConfigured = TRUE
    /\ isSubmitting = FALSE
    /\ setupError = ""
    /\ calls = EmptyBag
    /\ ev = [kind |-> "init"]
    /\ view = InitialViews

NextView ==
    \/ ListMount
    \/ ListTick
    \/ \E d \in Devices : ListToggleMenu(d)
    \/ \E d \in Devices, a \in PowerActions : ListPowerClick(d, a)
    \/ \E c \in CallsInFlight, resp \in ViewResponses : ListPowerRespond(c, resp)
    \/ \E c \in CallsInFlight, resp \in ViewResponses, payload \in LoadPayloads :
           ListLoadRespond(c, resp, payload)
    \/ UserDropdownLogout

SpecView == InitView /\ [][NextView]_vars

----------------------------------------------------------------------------
(* The address specification: Setup with every address a user can type *)

\* The login answers the address flow is checked with: one failure, one success.
AddrLoginResponses ==
    {r \in LoginResponses :
        \/ r.kind = "network"
        \/ r.status = 200 /\ r.body = "dataToken" /\ r.token = "t1"}

NextAddr ==
    \/ \E a \in AddrInputs, u \in Usernames, p \in Passwords : SetupSubmit(a, u, p)
    \/ \E c \in CallsInFlight, resp \in AddrLoginResponses : LoginRespond(c, resp)

SpecAddr == Init /\ [][NextAddr]_vars

----------------------------------------------------------------------------
(* Text that the code converts character by character *)

\* Text is a sequence of one-character strings.
UpperChars == <<"A", "B", "C", "D", "E", "F", "G", "H", "I", "J", "K", "L", "M",
                "N", "O", "P", "Q", "R", "S", "T", "U", "V", "W", "X", "Y", "Z">>
LowerChars == <<"a", "b", "c", "d", "e", "f", "g", "h", "i", "j", "k", "l", "m",
                "n", "o", "p", "q", "r", "s", "t", "u", "v", "w", "x", "y", "z">>

\* The character matches [A-Z].
IsUpper(ch) == \E k \in DOMAIN UpperChars : UpperChars[k] = ch

\* String.prototype.toLowerCase
toLowerCase(s) ==
    IF s = <<>> THEN <<>>
    ELSE [i \in DOMAIN s |->
             IF IsUpper(s[i])
             THEN LowerChars[CHOOSE k \in DOMAIN UpperChars : UpperChars[k] = s[i]]
             ELSE s[i]]

\* A field or value that the JSON object does not have.
undefined == "<undefined>"
UndefinedSeq == <<undefined>>

----------------------------------------------------------------------------
(* The derived operations on the data the backend returned *)

\* Variant: a device that an earlier system already gave is left out.
RECURSIVE flatMapDistinctDevices(_)
flatMapDistinctDevices(systems) ==
    IF systems = <<>> THEN <<>>
    ELSE LET before == flatMapDistinctDevices(SubSeq(systems, 1, Len(systems) - 1))
             last == systems[Len(systems)].computeDevices
         IN  before \o (IF last = UndefinedSeq THEN <<>>
                        ELSE SelectSeq(last, LAMBDA d :
                                 \A k \in DOMAIN before : before[k] # d))

\* api.ts fetchComputeDevices line 178:
\* systemsResponse.data.flatMap(system => system.computeDevices || [])
RECURSIVE flatMapComputeDevices(_)
flatMapComputeDevices(systems) ==
    IF systems = <<>> THEN <<>>
    ELSE (IF Head(systems).computeDevices = UndefinedSeq
          THEN <<>> ELSE Head(systems).computeDevices)
         \o flatMapComputeDevices(Tail(systems))

\* Variant: the devices whose flag is false are counted as non-compliant.
firmwareComplianceCountingFalse(computeDevices) ==
    [total |-> Len(computeDevices),
     compliant |->
         Len(SelectSeq(computeDevices, LAMBDA device : device.isFirmwareAtRecommended = "true")),
     nonCompliant |->
         Len(SelectSeq(computeDevices, LAMBDA device : device.isFirmwareAtRecommended = "false"))]

\* part_001 fetchFirmwareCompliance lines 287-297.  isFirmwareAtRecommended is
\* "true", "false" or undefined.
firmwareCompliance(computeDevices) ==
    LET compliantCount ==
            Len(SelectSeq(computeDevices, LAMBDA device : device.isFirmwareAtRecommended = "true"))
        nonCompliantCount == Len(computeDevices) - compliantCount
    IN  [total |-> Len(computeDevices), compliant |-> compliantCount,
         nonCompliant |-> nonCompliantCount]

HealthStatus == <<"H", "e", "a", "l", "t", "h", "S", "t", "a", "t", "u", "s">>

driveHealthStatus == <<"d", "r", "i", "v", "e">> \o HealthStatus
fanHealthStatus == <<"f", "a", "n">> \o HealthStatus
temperatureHealthStatus ==
    <<"t", "e", "m", "p", "e", "r", "a", "t", "u", "r", "e">> \o HealthStatus
voltageHealthStatus == <<"v", "o", "l", "t", "a", "g", "e">> \o HealthStatus
processorHealthStatus == <<"p", "r", "o", "c", "e", "s", "s", "o", "r">> \o HealthStatus
powerSupplyHealthStatus ==
    <<"p", "o", "w", "e", "r", "S", "u", "p", "p", "l", "y">> \o HealthStatus

\* Variant: the health fields that the ComputeDevice interface declares.
healthFieldsOfInterface ==
    <<driveHealthStatus, fanHealthStatus, temperatureHealthStatus,
      processorHealthStatus, powerSupplyHealthStatus>>

\* part_001 fetchRecentAlerts lines 316-323.
healthFields ==
    <<driveHealthStatus, fanHealthStatus, temperatureHealthStatus,
      voltageHealthStatus, processorHealthStatus, powerSupplyHealthStatus>>

\* field.replace(/([A-Z])/g, " $1")
RECURSIVE replaceCapitals(_)
replaceCapitals(field) ==
    IF field = <<>> THEN <<>>
    ELSE (IF IsUpper(Head(field)) THEN <<" ", Head(field)>> ELSE <<Head(field)>>)
         \o replaceCapitals(Tail(field))

\* Line 330: `${field.replace(...)}: ${status}`; the status is the last element.
formatAlert(field, status) == replaceCapitals(field) \o <<":", " ", status>>

\* Lines 325-333: the alerts of one device, over the fields in order.
RECURSIVE alertsOfDevice(_, _)
alertsOfDevice(device, fields) ==
    IF fields = <<>> THEN <<>>
    ELSE LET field == Head(fields)
             status == device.health[field]
         IN  (IF status \notin {undefined, ""} /\ status # "NORMAL"
              THEN << [device |-> device, alert |-> formatAlert(field, status)] >>
              ELSE <<>>)
             \o alertsOfDevice(device, Tail(fields))

\* Lines 313-334: computeResponse.data.forEach(device => ...)
RECURSIVE recentAlerts(_)
recentAlerts(computeDevices) ==
    IF computeDevices = <<>> THEN <<>>
    ELSE alertsOfDevice(Head(computeDevices), healthFields)
         \o recentAlerts(Tail(computeDevices))

Completed == <<"c", "o", "m", "p", "l", "e", "t", "e", "d">>

\* part_001 fetchActiveTasks lines 354-356.
activeTasks(tasks) ==
    SelectSeq(tasks, LAMBDA task :
        task.status \notin {UndefinedSeq, <<>>} /\ toLowerCase(task.status) # Completed)

----------------------------------------------------------------------------
(* The data specification: the derived operations over what the backend holds *)

MaxSystems == 3     \* systems in a backend answer
MaxPerSystem == 1   \* compute devices of one system
MaxDevices == 2     \* devices in an answer of the devices endpoint
MaxTasks == 3       \* tasks in a backend answer

\* A system of the backend, identified by its position: its computeDevices
\* field is absent or a sequence of device ids (the same id may occur twice).
SystemDevices == {UndefinedSeq} \cup SeqsUpTo(Devices, MaxPerSystem)
SystemLists ==
    {[i \in DOMAIN cds |-> [resourceId |-> i, computeDevices |-> cds[i]]] :
        cds \in SeqsUpTo(SystemDevices, MaxSystems)}

\* Devices as the firmware summary reads them.
FirmwareFlags == {"true", "false", undefined}
FirmwareDeviceLists ==
    {[i \in DOMAIN fs |-> [resourceId |-> i, isFirmwareAtRecommended |-> fs[i]]] :
        fs \in SeqsUpTo(FirmwareFlags, MaxDevices)}

\* Devices as the alerts derivation reads them: a status, or none, for each
\* field it looks at.  The maps are those with every field NORMAL but at most
\* one, which is CRITICAL, those with the voltage field and one more CRITICAL,
\* and those with one value everywhere.
HealthFieldSet ==
    {driveHealthStatus, fanHealthStatus, temperatureHealthStatus,
     voltageHealthStatus, processorHealthStatus, powerSupplyHealthStatus}
HealthStatuses == {"NORMAL", "WARNING", "CRITICAL", undefined}
HealthMaps ==
    {[f \in HealthFieldSet |-> IF f = g THEN "CRITICAL" ELSE "NORMAL"] :
        g \in HealthFieldSet}
    \cup {[f \in HealthFieldSet |->
                IF f \in {voltageHealthStatus, g} THEN "CRITICAL" ELSE "NORMAL"] :
             g \in HealthFieldSet}
    \cup {[f \in HealthFieldSet |-> st] : st \in HealthStatuses}
HealthDeviceLists ==
    {[i \in DOMAIN hs |-> [resourceId |-> i, health |-> hs[i]]] :
        hs \in SeqsUpTo(HealthMaps, MaxDevices)}

\* Task statuses: "Completed", "completed", "COMPLETED", "Running", "Failed",
\* the empty string, and no status field.
TaskStatuses ==
    { <<"C", "o", "m", "p", "l", "e", "t", "e", "d">>,
      <<"c", "o", "m", "p", "l", "e", "t", "e", "d">>,
      <<"C", "O", "M", "P", "L", "E", "T", "E", "D">>,
      <<"R", "u", "n", "n", "i", "n", "g">>,
      <<"F", "a", "i", "l", "e", "d">>,
      <<>>,
      UndefinedSeq }
TaskLists ==
    {[i \in DOMAIN ss |-> [id |-> i, status |-> ss[i]]] :
        ss \in SeqsUpTo(TaskStatuses, MaxTasks)}

\* The answers the derived operations are checked with.
DataResponses ==
    {r \in FetchResponses :
        \/ r.status = 401
        \/ r.status = 500 /\ r.body = "objMessage"
        \/ r.status = 200 /\ r.body \in {"objDataArray", "array"}}

\* What a caller holds after the call: the outcome, the error and the data.
DataResult(res, data) ==
    [outcome |-> res.outcome, error |-> res.error, data |-> data]

\* list-compute-devices in both forms, given what fetchWithAuth returned:
\* api.ts fetchComputeDevices flattens the systems; part_001 fetchComputeDevices
\* reads the devices endpoint, which holds the systems' devices in order.
DevicesResults(fw, systems) ==
    LET flat == fetchComputeDevices(fw)
        direct == fetchComputeDevicesDirect(fw)
        endpoint == flatMapComputeDevices(systems)
    IN  [kind |-> "devices", systems |-> systems,
         flat |-> DataResult(flat, IF flat.data = "array"
                                   THEN flatMapComputeDevices(systems) ELSE <<>>),
         direct |-> DataResult(direct, IF direct.data = "array" THEN endpoint ELSE <<>>)]

\* part_001 fetchFirmwareCompliance over the devices the endpoint returned.
FirmwareResult(fw, devices) ==
    LET res == fetchFirmwareCompliance(fw)
    IN  [kind |-> "firmware", devices |-> devices,
         result |-> IF res.data = "summary"
                    THEN DataResult(res, firmwareCompliance(devices))
                    ELSE DataResult(res, [total |-> 0, compliant |-> 0, nonCompliant |-> 0])]

\* part_001 fetchRecentAlerts over the devices the endpoint returned.
AlertsResult(fw, devices) ==
    LET res == fetchRecentAlerts(fw)
    IN  [kind |-> "alerts", devices |-> devices,
         result |-> DataResult(res, IF res.data = "array"
                                    THEN recentAlerts(devices) ELSE <<>>)]

\* part_001 fetchActiveTasks over the tasks the backend returned.
TasksResult(fw, tasks) ==
    LET res == fetchActiveTasks(fw)
    IN  [kind |-> "tasks", tasks |-> tasks,
         result |-> DataResult(res, IF res.data = "array" THEN activeTasks(tasks) ELSE <<>>)]

DataOps == {"devices", "firmware", "alerts", "tasks"}

DataSettled(op, fw, input) ==
    CASE op = "devices" -> DevicesResults(fw, input)
      [] op = "firmware" -> FirmwareResult(fw, input)
      [] op = "alerts" -> AlertsResult(fw, input)
      [] op = "tasks" -> TasksResult(fw, input)

\* The answer carries data only if the operation accepts it.
Accepted(e) ==
    IF e.kind = "devices"
    THEN ~Truthy(e.flat.error) \/ (e.direct.outcome = "returned" /\ ~Truthy(e.direct.error))
    ELSE ~Truthy(e.result.error)

\* A derived operation is called: fetchWithAuth sends its request, or fails at
\* once and the operation finishes in the same turn.
DataStart(op) ==
    /\ calls = EmptyBag
    /\ LET b == fetchWithAuthBegin(storage)
       IN  IF b.sent
           THEN /\ calls' = Add(ApiCall(op))
                /\ ev' = [kind |-> "request", op |-> op]
           ELSE /\ calls' = calls
                /\ ev' = DataSettled(op, b.result, <<>>)
    /\ UNCHANGED <<storage, route, isConfigured, isSubmitting, setupError, view>>

\* The backend answers the request of a derived operation.
DataRespond(c, resp, input) ==
    /\ LET s == fetchWithAuthSettle(storage, resp)
           e == DataSettled(c.op, s.result, input)
       IN  /\ ~Accepted(e) => input = <<>>
           /\ storage' = s.storage
           /\ calls' = Remove(c)
           /\ ev' = e
    /\ UNCHANGED <<route, isConfigured, isSubmitting, setupError, view>>

FetchComputeDevicesRespond(c, resp, systems) ==
    c.op = "devices" /\ DataRespond(c, resp, systems)

FetchFirmwareComplianceRespond(c, resp, devices) ==
    c.op = "firmware" /\ DataRespond(c, resp, devices)

FetchRecentAlertsRespond(c, resp, devices) ==
    c.op = "alerts" /\ DataRespond(c, resp, devices)

FetchActiveTasksRespond(c, resp, tasks) ==
    c.op = "tasks" /\ DataRespond(c, resp, tasks)

InitData ==
    /\ storage = ConfiguredStorage
    /\ route = "app"
    /\ isConfigured = TRUE
    /\ isSubmitting = FALSE
    /\ setupError = ""
    /\ calls = EmptyBag
    /\ ev = [kind |-> "init"]
    /\ view = NoView

NextData ==
    \/ \E op \in DataOps : DataStart(op)
    \/ \E c \in CallsInFlight, resp \in DataResponses, systems \in SystemLists :
           FetchComputeDevicesRespond(c, resp, systems)
    \/ \E c \in CallsInFlight, resp \in DataResponses, devices \in FirmwareDeviceLists :
           FetchFirmwareComplianceRespond(c, resp, devices)
    \/ \E c \in CallsInFlight, resp \in DataResponses, devices \in HealthDeviceLists :
           FetchRecentAlertsRespond(c, resp, devices)
    \/ \E c \in CallsInFlight, resp \in DataResponses, tasks \in TaskLists :
           FetchActiveTasksRespond(c, resp, tasks)

SpecData == InitData /\ [][NextData]_vars

----------------------------------------------------------------------------
(* The polling specification: the views that load data, and their timers *)

MaxTimers == 2      \* interval timers of one view instance that can be active

\* "Dashboard" is src/src/Dashboard.tsx; "DashboardPolling" is the Dashboard
\* variant in components/ComputeDeviceList.tsx (lines 205-258).
PollViews == {"Dashboard", "DashboardPolling", "SystemDetails", "ComputeDeviceList"}

\* The effect of the view calls setInterval(loadData, 30000).
SetsInterval(v) == v \in {"DashboardPolling", "ComputeDeviceList"}

\* The effect has a dependency that can change while mounted ([systemId], [id]).
RerunsOnChange(v) == v \in {"SystemDetails", "ComputeDeviceList"}

\* A view instance: whether it is mounted and how many of its interval timers
\* are active.
InitialInstance == [mounted |-> FALSE, timers |-> 0]

\* Dashboard's loading and error state (useState, lines 68-69).
InitialDashboard == [loading |-> TRUE, error |-> ""]

InitialPoll ==
    [kind |-> "poll", inst |-> [v \in PollViews |-> InitialInstance],
     dash |-> InitialDashboard]

\* Variant: the effect returns no cleanup function.
effectCleanupNone(v, i) == i

\* The cleanup function of the effect: clearInterval(interval).
effectCleanup(v, i) == [i EXCEPT !.timers = IF SetsInterval(v) THEN @ - 1 ELSE @]

\* The body of the effect after its call of loadData: setInterval.
effectRun(v, i) == [i EXCEPT !.timers = IF SetsInterval(v) THEN @ + 1 ELSE @]

\* The read operations Dashboard.loadData starts together (Promise.all).
DashOps == {"fetchUcpSystems", "fetchComputeDevicesDirect", "fetchFirmwareCompliance",
            "fetchActiveTasks", "fetchRecentAlerts"}

\* The answers to the five requests of one load: each request succeeds or
\* fails on its own, or the token is refused for all of them.
DashAnswerSets ==
    [DashOps -> {"ok", "serverError"}] \cup {[op \in DashOps |-> "unauthorized"]}

\* The backend's answer to the request of one of the operations.
DashResponse(op, a) ==
    CASE a = "unauthorized" ->
             [kind |-> "http", status |-> 401, body |-> "objOther", statusText |-> "Unauthorized"]
      [] a = "serverError" ->
             [kind |-> "http", status |-> 500, body |-> "objMessage",
              statusText |-> "Internal Server Error"]
      [] a = "ok" ->
             [kind |-> "http", status |-> 200, statusText |-> "OK",
              body |-> IF op = "fetchActiveTasks" THEN "array" ELSE "objDataArray"]

\* What the five operations return for the answers as.
DashResults(st, as) ==
    [op \in DashOps |-> OpResult(op, fetchWithAuthSettle(st, DashResponse(op, as[op])).result)]

\* What the five operations return when fetchWithAuth fails before sending.
DashResultsUnsent(b) == [op \in DashOps |-> OpResult(op, b.result)]

\* Storage after the five answers: a 401 among them has called logout.
DashStorage(st, as) ==
    IF \E op \in DashOps : fetchWithAuthSettle(st, DashResponse(op, as[op])).storage # st
    THEN logout(st) ELSE st

\* Array.isArray of the data of a result.
IsArray(data) == data \in {"array", "emptyArray"}

\* Dashboard.loadData lines 75-113, once Promise.all has settled.
dashboardLoadSettled(d, results) ==
    LET rejected == {op \in DashOps : results[op].outcome = "rejected"}
    IN  IF rejected # {}
        THEN [loading |-> FALSE, error |-> results[CHOOSE op \in rejected : TRUE].error]
        ELSE IF \/ ~IsArray(results["fetchUcpSystems"].data)
                \/ ~IsArray(results["fetchComputeDevicesDirect"].data)
        THEN [loading |-> FALSE,
              error |-> "Invalid API response: Expected an array but received something else"]
        ELSE IF ~IsArray(results["fetchRecentAlerts"].data)
        THEN [loading |-> FALSE, error |-> "TypeError: alertsResponse.data.map is not a function"]
        ELSE [d EXCEPT !.loading = FALSE]

\* The operations of a load that ended with an error or raised.
FailedOps(results) ==
    {op \in DashOps : results[op].outcome = "rejected" \/ Truthy(results[op].error)}

\* The load a view has in flight.
ReadCall(v) ==
    [op |-> IF v = "Dashboard" THEN "dashboardLoad" ELSE "read", sent |-> 1, view |-> v]

\* The view calls its load function: the requests go out, or fetchWithAuth
\* fails at once and the load finishes in the same turn.  vw is the view state
\* the caller has produced so far.
PollLoadBegin(v, kind, vw) ==
    LET b == fetchWithAuthBegin(storage)
        results == DashResultsUnsent(b)
    IN  /\ IF b.sent
           THEN /\ CanStart
                /\ calls' = Add(ReadCall(v))
                /\ view' = IF v = "Dashboard" THEN [vw EXCEPT !.dash.loading = TRUE] ELSE vw
           ELSE /\ calls' = calls
                /\ view' = IF v = "Dashboard"
                           THEN [vw EXCEPT !.dash = dashboardLoadSettled(@, results)]
                           ELSE vw
        /\ ev' = [kind |-> kind, view |-> v, sent |-> b.sent,
                  wasMounted |-> view.inst[v].mounted, callsBefore |-> calls,
                  failed |-> IF v = "Dashboard" /\ ~b.sent THEN FailedOps(results) ELSE {}]

\* The view is mounted: its effect runs (load, then setInterval if it has one).
PollMount(v) ==
    /\ ViewsMounted /\ view.kind = "poll"
    /\ ~view.inst[v].mounted
    /\ view.inst[v].timers < MaxTimers
    /\ PollLoadBegin(v, "mount",
                     [view EXCEPT !.inst[v] = effectRun(v, [@ EXCEPT !.mounted = TRUE]),
                                  !.dash = IF v = "Dashboard" THEN InitialDashboard ELSE @])
    /\ UNCHANGED <<storage, route, isConfigured, isSubmitting, setupError>>

\* The view is torn down: the cleanup of its effect runs.  Nothing is done
\* about the calls in flight.
PollUnmount(v) ==
    /\ view.kind = "poll"
    /\ view.inst[v].mounted
    /\ view' = [view EXCEPT !.inst[v] = effectCleanup(v, [@ EXCEPT !.mounted = FALSE])]
    /\ ev' = [kind |-> "unmount", view |-> v, sent |-> FALSE, wasMounted |-> TRUE,
              callsBefore |-> calls, failed |-> {}]
    /\ UNCHANGED <<storage, route, isConfigured, isSubmitting, setupError, calls>>

\* The dependency of the effect changes (another systemId): cleanup, then the
\* effect again.
PollDepsChange(v) ==
    /\ view.kind = "poll"
    /\ RerunsOnChange(v)
    /\ view.inst[v].mounted
    /\ effectCleanup(v, view.inst[v]).timers < MaxTimers
    /\ PollLoadBegin(v, "depsChange",
                     [view EXCEPT !.inst[v] = effectRun(v, effectCleanup(v, @))])
    /\ UNCHANGED <<storage, route, isConfigured, isSubmitting, setupError>>

\* An active 30-second timer of the view fires: it calls the load function.
PollTick(v) ==
    /\ view.kind = "poll"
    /\ view.inst[v].timers > 0
    /\ PollLoadBegin(v, "tick", view)
    /\ UNCHANGED <<storage, route, isConfigured, isSubmitting, setupError>>

\* The single request of a view's load is answered.
PollReadRespond(c, resp) ==
    /\ c.op = "read"
    /\ storage' = fetchWithAuthSettle(storage, resp).storage
    /\ calls' = Remove(c)
    /\ ev' = [kind |-> "readDone", view |-> c.view, sent |-> FALSE,
              wasMounted |-> view.inst[c.view].mounted, callsBefore |-> calls, failed |-> {}]
    /\ UNCHANGED <<route, isConfigured, isSubmitting, setupError, view>>

\* The five requests of Dashboard.loadData are answered and Promise.all
\* settles.  A setState on an instance that is gone changes nothing.
DashboardLoadRespond(c, as) ==
    /\ c.op = "dashboardLoad"
    /\ LET results == DashResults(storage, as)
       IN  /\ storage' = DashStorage(storage, as)
           /\ calls' = Remove(c)
           /\ view' = IF view.inst["Dashboard"].mounted
                      THEN [view EXCEPT !.dash = dashboardLoadSettled(@, results)]
                      ELSE view
           /\ ev' = [kind |-> "dashLoadDone", view |-> "Dashboard", sent |-> FALSE,
                     wasMounted |-> view.inst["Dashboard"].mounted, callsBefore |-> calls,
                     failed |-> FailedOps(results)]
    /\ UNCHANGED <<route, isConfigured, isSubmitting, setupError>>

InitPoll ==
    /\ storage = ConfiguredStorage
    /\ route = "app"
    /\ isConfigured = TRUE
    /\ isSubmitting = FALSE
    /\ setupError = ""
    /\ calls = EmptyBag
    /\ ev = [kind |-> "init"]
    /\ view = InitialPoll

NextPoll ==
    \/ \E v \in PollViews : PollMount(v)
    \/ \E v \in PollViews : PollUnmount(v)
    \/ \E v \in PollViews : PollDepsChange(v)
    \/ \E v \in PollViews : PollTick(v)
    \/ \E c \in CallsInFlight, resp \in ViewResponses : PollReadRespond(c, resp)
    \/ \E c \in CallsInFlight, as \in DashAnswerSets : DashboardLoadRespond(c, as)

SpecPoll == InitPoll /\ [][NextPoll]_vars

----------------------------------------------------------------------------
(* The details specification: the list view's reads and the details modal *)

NextDetails ==
    \/ ListMount
    \/ \E c \in CallsInFlight, resp \in ViewResponses, payload \in LoadPayloads :
           ListLoadRespond(c, resp, payload)
    \/ \E d \in Devices : ListToggleMenu(d)
    \/ \E d \in Devices, a \in PowerActions : ListPowerClick(d, a)
    \/ \E c \in CallsInFlight, resp \in ViewResponses : ListPowerRespond(c, resp)
    \/ \E a \in PowerActions : DetailsPowerClick(a)
    \/ \E c \in CallsInFlight, resp \in ViewResponses : DetailsPowerRespond(c, resp)

SpecDetails == InitView /\ [][NextDetails]_vars

----------------------------------------------------------------------------
(* The overlap specification: the reads of one ComputeDeviceList instance   *)
(* whose systemId prop changes while reads are in flight                     *)

MaxReads == 3       \* reads one ComputeDeviceList instance issues

Systems == {"s1", "s2"}

\* A device list tells the system it belongs to and the power status of its
\* devices; NoList is [], the list of no system.
NoList == [system |-> "none", power |-> "none"]
SystemListsOf(s) == {[system |-> s, power |-> p] : p \in Power}

\* What an answer holds for the systemId the read was issued with.
ReadPayloads(s) ==
    {[found |-> FALSE, devices |-> NoList]}
    \cup {[found |-> TRUE, devices |-> l] : l \in SystemListsOf(s)}

\* The instance: the useState values of InitialList, the systemId prop, the
\* number of reads issued so far, and what the most recently issued read was
\* answered (Pending until then).
Pending == [answered |-> FALSE, ok |-> FALSE, devices |-> NoList]
AnsweredWith(ok, devices) == [answered |-> TRUE, ok |-> ok, devices |-> devices]
InitialOverlap ==
    [kind |-> "overlap",
     list |-> [mounted |-> FALSE, computeDevices |-> NoList, loading |-> TRUE, error |-> "",
               systemId |-> "s1", issued |-> 0, latest |-> Pending]]

\* A loadData call in flight: its number in issue order and the systemId of
\* the render whose loadData was called (line 37 reads it from the closure).
OverlapCall(n, s) ==
    [op |-> "fetchInfrastructureStatus", sent |-> 1, view |-> "overlap", seq |-> n,
     systemId |-> s]

\* loadData is called for list state l (lines 29-31).
OverlapLoadBegin(l, kind) ==
    LET b == fetchWithAuthBegin(storage)
        n == l.issued + 1
        l1 == [l EXCEPT !.issued = n, !.latest = Pending]
        res == fetchInfrastructureStatus(b.result)
    IN  /\ l.issued < MaxReads
        /\ IF b.sent
           THEN /\ CanStart
                /\ calls' = Add(OverlapCall(n, l.systemId))
                /\ view' = [view EXCEPT !.list = l1]
           ELSE /\ calls' = calls
                /\ view' = [view EXCEPT !.list =
                               [loadDataSettled(l1, res, [found |-> FALSE, devices |-> NoList])
                                   EXCEPT !.latest = AnsweredWith(FALSE, NoList)]]
        /\ ev' = [kind |-> kind, seq |-> n, sent |-> b.sent]

\* useEffect, lines 51-55: the instance mounts and loads.
OverlapMount ==
    /\ view.kind = "overlap" /\ ~view.list.mounted
    /\ OverlapLoadBegin([view.list EXCEPT !.mounted = TRUE], "mount")
    /\ UNCHANGED <<storage, route, isConfigured, isSubmitting, setupError>>

\* The 30-second interval fires: loadData of the current effect run.
OverlapTick ==
    /\ view.kind = "overlap" /\ view.list.mounted
    /\ OverlapLoadBegin(view.list, "tick")
    /\ UNCHANGED <<storage, route, isConfigured, isSubmitting, setupError>>

\* The parent passes another systemId: the effect ([systemId]) is cleaned up
\* and runs again, calling the loadData of the new render.  No state is reset
\* and no read in flight is cancelled.
OverlapSystemChange(s) ==
    /\ view.kind = "overlap" /\ view.list.mounted
    /\ s # view.list.systemId
    /\ OverlapLoadBegin([view.list EXCEPT !.systemId = s], "systemChange")
    /\ UNCHANGED <<storage, route, isConfigured, isSubmitting, setupError>>

\* A read is answered: loadData lines 31-48 with the systemId of its closure.
OverlapLoadRespond(c, resp, payload) ==
    /\ c.op = "fetchInfrastructureStatus" /\ c.view = "overlap"
    /\ payload \in ReadPayloads(c.systemId)
    /\ LET s == fetchWithAuthSettle(storage, resp)
           res == fetchInfrastructureStatus(s.result)
           l1 == loadDataSettled(view.list, res, payload)
           ok == ~Truthy(res.error) /\ payload.found
       IN  /\ Truthy(res.error) => ~payload.found
           /\ storage' = s.storage
           /\ calls' = Remove(c)
           /\ view' = [view EXCEPT !.list =
                          IF c.seq = view.list.issued
                          THEN [l1 EXCEPT !.latest = AnsweredWith(ok, payload.devices)]
                          ELSE l1]
           /\ ev' = [kind |-> "loadDone", seq |-> c.seq, sent |-> FALSE]
    /\ UNCHANGED <<route, isConfigured, isSubmitting, setupError>>

InitOverlap ==
    /\ storage = ConfiguredStorage
    /\ route = "app"
    /\ isConfigured = TRUE
    /\ isSubmitting = FALSE
    /\ setupError = ""
    /\ calls = EmptyBag
    /\ ev = [kind |-> "init"]
    /\ view = InitialOverlap

NextOverlap ==
    \/ OverlapMount
    \/ OverlapTick
    \/ \E s \in Systems : OverlapSystemChange(s)
    \/ \E c \in CallsInFlight, resp \in ViewResponses,
          payload \in UNION {ReadPayloads(s) : s \in Systems} :
           OverlapLoadRespond(c, resp, payload)

SpecOverlap == InitOverlap /\ [][NextOverlap]_vars

----------------------------------------------------------------------------
(* The dashboard data specification: what one Dashboard load puts on screen  *)
(* when each operation reads the devices collection for itself               *)

\* A device of the backend: firmware at the recommended level and one health
\* field raised, so that it shows in the summary and in the alerts.
BackendDevice(id) ==
    [resourceId |-> id, isFirmwareAtRecommended |-> "true",
     health |-> [f \in HealthFieldSet |-> IF f = fanHealthStatus THEN "CRITICAL" ELSE "NORMAL"]]

\* The devices collection at the moment of one request: the devices present.
Snapshots ==
    {<<>>, <<BackendDevice("d1")>>, <<BackendDevice("d2")>>,
     <<BackendDevice("d1"), BackendDevice("d2")>>}

\* The operations of a load that read the devices collection.
DeviceReaders == {"fetchComputeDevicesDirect", "fetchFirmwareCompliance", "fetchRecentAlerts"}

\* Dashboard's useState values for the data it shows (lines 60-67).
InitialShown ==
    [computeDevices |-> <<>>,
     firmwareCompliance |-> [total |-> 0, compliant |-> 0, nonCompliant |-> 0],
     recentAlerts |-> <<>>]

InitialDashData ==
    [kind |-> "dashData", mounted |-> FALSE, dash |-> InitialDashboard,
     shown |-> InitialShown]

\* Lines 101-104: the label and text of an alert as the Dashboard lists it.
formattedAlerts(alerts) ==
    [i \in DOMAIN alerts |-> [device |-> alerts[i].device.resourceId, alert |-> alerts[i].alert]]

\* Lines 97-106: the setState calls, reached when nothing before them threw.
\* snaps[op] is the devices collection the request of op was answered from.
dashboardShown(results, snaps) ==
    [computeDevices |->
         IF results["fetchComputeDevicesDirect"].data = "array"
         THEN snaps["fetchComputeDevicesDirect"] ELSE <<>>,
     firmwareCompliance |->
         IF results["fetchFirmwareCompliance"].data = "summary"
         THEN firmwareCompliance(snaps["fetchFirmwareCompliance"])
         ELSE [total |-> 0, compliant |-> 0, nonCompliant |-> 0],
     recentAlerts |->
         IF results["fetchRecentAlerts"].data = "array"
         THEN formattedAlerts(recentAlerts(snaps["fetchRecentAlerts"]))
         ELSE <<>>]

\* loadData lines 75-113 for the whole Dashboard state.
dashboardDataSettled(v, results, snaps) ==
    LET d == dashboardLoadSettled(v.dash, results)
        threw == dashboardLoadSettled(InitialDashboard, results).error # ""
    IN  [v EXCEPT !.dash = d,
                  !.shown = IF threw THEN @ ELSE dashboardShown(results, snaps)]

\* Dashboard mounts: useEffect calls loadData (lines 116-118).
DashDataMount ==
    /\ ViewsMounted /\ view.kind = "dashData" /\ ~view.mounted
    /\ LET b == fetchWithAuthBegin(storage)
           v1 == [InitialDashData EXCEPT !.mounted = TRUE]
           results == DashResultsUnsent(b)
       IN  /\ IF b.sent
              THEN /\ CanStart
                   /\ calls' = Add(ReadCall("Dashboard"))
                   /\ view' = v1
              ELSE /\ calls' = calls
                   /\ view' = dashboardDataSettled(v1, results,
                                                   [op \in DeviceReaders |-> <<>>])
           /\ ev' = [kind |-> "dashMount", sent |-> b.sent, failed |-> {}]
    /\ UNCHANGED <<storage, route, isConfigured, isSubmitting, setupError>>

\* Dashboard is left (another route).
DashDataUnmount ==
    /\ view.kind = "dashData" /\ view.mounted
    /\ view' = InitialDashData
    /\ ev' = [kind |-> "dashUnmount", sent |-> FALSE, failed |-> {}]
    /\ UNCHANGED <<storage, route, isConfigured, isSubmitting, setupError, calls>>

\* The five requests are answered, the three device readers each from the
\* collection as it is when its request arrives, and Promise.all settles.
DashDataRespond(c, as, snaps) ==
    /\ c.op = "dashboardLoad"
    /\ view.kind = "dashData"
    /\ \A op \in DeviceReaders : as[op] # "ok" => snaps[op] = <<>>
    /\ LET results == DashResults(storage, as)
       IN  /\ storage' = DashStorage(storage, as)
           /\ calls' = Remove(c)
           /\ view' = IF view.mounted THEN dashboardDataSettled(view, results, snaps)
                      ELSE view
           /\ ev' = [kind |-> "dashLoadDone", sent |-> FALSE, failed |-> FailedOps(results)]
    /\ UNCHANGED <<route, isConfigured, isSubmitting, setupError>>

InitDash ==
    /\ storage = ConfiguredStorage
    /\ route = "app"
    /\ isConfigured = TRUE
    /\ isSubmitting = FALSE
    /\ setupError = ""
    /\ calls = EmptyBag
    /\ ev = [kind |-> "init"]
    /\ view = InitialDashData

NextDash ==
    \/ DashDataMount
    \/ DashDataUnmount
    \/ \E c \in CallsInFlight, as \in DashAnswerSets, snaps \in [DeviceReaders -> Snapshots] :
           DashDataRespond(c, as, snaps)

SpecDash == InitDash /\ [][NextDash]_vars

----------------------------------------------------------------------------
(* Properties *)

TokenOf(st) == IF Has(st, "bearerToken") THEN st["bearerToken"] ELSE "<absent>"

\* The last step handled the backend's answer to an authenticated call.
Answered(e) == e.kind \in {"settled", "retry"} /\ e.responded

\* C1: a call through fetchWithAuth that is answered with HTTP 401 leaves no
\* bearerToken and no apiUrl in storage, resolves with error set, and is not
\* sent a second time (no call in flight has asked fetch for more than one
\* request).
C1_UnauthorizedClearsSessionNoRetry ==
    /\ \A c \in CallsInFlight : c.op \in Ops => c.sent = 1
    /\ (Answered(ev) /\ ev.resp.kind = "http" /\ ev.resp.status = 401)
       => /\ ev.kind = "settled"
          /\ ev.sent = 1
          /\ ~Has(storage, "bearerToken")
          /\ ~Has(storage, "apiUrl")
          /\ ev.fw.outcome = "returned"
          /\ Truthy(ev.fw.error)

\* C1 witness: a 401 was just handled for a call made with a stored session.
C1_Witness ==
    /\ ev.kind = "settled" /\ ev.responded
    /\ ev.resp.kind = "http" /\ ev.resp.status = 401
    /\ Has(ev.before, "bearerToken") /\ Has(ev.before, "apiUrl")

\* The call ended in one of the failures the claim lists.
CallFailed(e) ==
    \/ ~e.responded
    \/ e.resp.kind = "network"
    \/ ~ResponseOk(e.resp)
    \/ e.resp.body = "unparsable"

\* C2: fetchWithAuth never rejects: in every session state and for every
\* backend outcome it resolves to an envelope, with error populated on failure.
C2_FetchWithAuthNeverRejects ==
    ev.kind = "settled"
    => /\ ev.fw.outcome = "returned"
       /\ CallFailed(ev) => Truthy(ev.fw.error)

\* C3: every exported data-access operation returns a result value instead of
\* raising, in every session state.
C3_OperationsNeverRaise ==
    ev.kind = "settled" => ev.result.outcome = "returned"

BodyHasToken(resp) == resp.kind = "http" /\ resp.body = "dataToken" /\ resp.token # ""

\* The login body was parsed and holds no token, or an empty one.
TokenMissing(resp) ==
    resp.kind = "http" /\ resp.body # "unparsable" /\ ~BodyHasToken(resp)

\* C4: authenticate reports success only if the parsed body holds a token; when
\* the token is missing or empty it reports failure with a message, whatever
\* the HTTP status, and leaves the stored bearerToken as it was.
C4_NoTokenIsFailure ==
    ev.kind = "login"
    => /\ ev.result.success => BodyHasToken(ev.resp)
       /\ TokenMissing(ev.resp)
          => /\ ~ev.result.success
             /\ Truthy(ev.result.message)
             /\ TokenOf(storage) = TokenOf(ev.before)

\* C4 witness: a 2xx login answer without token arrived while a token was stored.
C4_Witness ==
    /\ ev.kind = "login"
    /\ ResponseOk(ev.resp) /\ ev.resp.body = "dataNoToken"
    /\ Has(ev.before, "bearerToken")

\* The login failed in one of the ways the claim lists.
LoginFailed(resp) ==
    \/ resp.kind = "network"
    \/ resp.body = "unparsable"
    \/ TokenMissing(resp)
    \/ ~ResponseOk(resp)

\* C5: on any failed login (network error, unparsable body, missing token,
\* non-success HTTP status) authenticate reports failure with a message and
\* writes no bearerToken.
C5_FailedLoginPersistsNothing ==
    (ev.kind = "login" /\ LoginFailed(ev.resp))
    => /\ ~ev.result.success
       /\ Truthy(ev.result.message)
       /\ TokenOf(storage) = TokenOf(ev.before)

\* The last step of a view called fetchWithAuth.
BeganRequest(e) ==
    e.kind \in {"mount", "tick", "powerClick", "powerDone"} /\ e.req.begun

\* C6 as stated: the Authorization header is attached only when a token is
\* stored, and without a stored token an authenticated call sends no request.
C6_NoTokenNoRequest ==
    BeganRequest(ev)
    => /\ ev.req.auth # NoHeader => HasToken(storage)
       /\ ~HasToken(storage) => ~ev.req.sent

\* C6 amended: a request is sent exactly when an address is stored; it carries
\* the stored token as Authorization header when a token is stored and no
\* Authorization header when none is.
C6_HeaderIffToken ==
    BeganRequest(ev)
    => /\ ev.req.sent <=> ~getApiBaseUrl(storage).thrown
       /\ ev.req.sent =>
             ev.req.auth = (IF HasToken(storage) THEN storage["bearerToken"] ELSE NoHeader)

\* C6 witness: a request went out with no token stored.
C6_Witness ==
    /\ BeganRequest(ev) /\ ev.req.sent
    /\ ~HasToken(storage)
    /\ ev.req.auth = NoHeader

\* The setComputePowerState calls of the list view in flight for device d.
PowerInFlight(d) ==
    {c \in CallsInFlight : c.op = "setComputePowerState" /\ c.view = "list" /\ c.dev = d}

\* A power command for d can be triggered in the list view: its menu toggle is
\* enabled, or its menu is open.
ControlEnabled(d) ==
    /\ ListRendered
    /\ d \in DOMAIN view.list.computeDevices
    /\ d \notin view.list.actionInProgress \/ d \in view.list.openMenus

\* C7: while a setComputePowerState call for device d is in flight the control
\* that triggers a power command for d is disabled, so at most one command per
\* device is in flight.
C7_ControlDisabledWhileInFlight ==
    \A d \in Devices :
        PowerInFlight(d) # {}
        => /\ ~ControlEnabled(d)
           /\ Cardinality(PowerInFlight(d)) = 1
           /\ \A c \in PowerInFlight(d) : CopiesIn(c, calls) = 1

ViewStep(e) ==
    e.kind \in {"mount", "tick", "toggle", "powerClick", "powerDone", "loadDone"}

\* C8: a setComputePowerState call that returns without error leaves the
\* view's device list as it was, and the list changes only in the step that
\* completes a read.
C8_PowerDoneKeepsDeviceList ==
    /\ (ev.kind = "powerDone" /\ ev.res.outcome = "returned" /\ ~Truthy(ev.res.error))
       => view.list.computeDevices = ev.devicesBefore
    /\ (ViewStep(ev) /\ view.list.computeDevices # ev.devicesBefore)
       => ev.kind = "loadDone"

\* C8 witness: a command of the mounted list view just returned without error
\* and the list holds devices.
C8_Witness ==
    /\ ev.kind = "powerDone" /\ ev.view = "list"
    /\ ev.res.outcome = "returned" /\ ~Truthy(ev.res.error)
    /\ view.list.mounted
    /\ view.list.computeDevices # <<>>

\* C9: every logout path leaves bearerToken and apiUrl cleared, and a logout
\* when already logged out leaves storage unchanged.
C9_LogoutClearsSession ==
    ev.kind = "logout"
    => /\ ~Has(storage, "bearerToken")
       /\ ~Has(storage, "apiUrl")
       /\ (~Has(ev.before, "bearerToken") /\ ~Has(ev.before, "apiUrl"))
          => storage = ev.before

\* The address begins with a URL scheme.
HasScheme(apiUrl) ==
    apiUrl # <<>> /\ Head(apiUrl) \in {"http://", "https://", "HTTP://"}

\* C10: after any Setup submission the stored apiUrl has no leading scheme.
C10_StoredAddressHasNoScheme ==
    ev.kind = "submit" => ~HasScheme(storage["apiUrl"])

\* The address with its leading scheme, if any, taken off.
StripScheme(apiUrl) == IF HasScheme(apiUrl) THEN Tail(apiUrl) ELSE apiUrl

\* A well-formed address typed with a scheme: the scheme, then host text.
SchemeAndHost(apiUrl) ==
    /\ HasScheme(apiUrl) /\ Len(apiUrl) >= 2
    /\ \A i \in 2..Len(apiUrl) : apiUrl[i] \in {"host", "http"}

\* C11: an address typed with a scheme prefix, stored by Setup and resolved by
\* getApiBaseUrl, gives "https://" followed by the input without its scheme;
\* getApiBaseUrl returns the stored value verbatim exactly when it carries a
\* scheme and otherwise prepends "https://", so every resolved base address
\* begins with a scheme.
C11_ResolvedAddressIsSecure ==
    ev.kind = "submit"
    => LET stored == storage["apiUrl"]
           base == getApiBaseUrl(storage)
       IN  /\ SchemeAndHost(ev.input)
              => /\ ~base.thrown
                 /\ base.url = <<"https://">> \o StripScheme(ev.input)
           /\ ~base.thrown
              => /\ (base.url = stored) <=> HasScheme(stored)
                 /\ ~HasScheme(stored) => base.url = <<"https://">> \o stored
                 /\ HasScheme(base.url)

\* The derived operation returned data without error.
DataOk(e, kind) ==
    e.kind = kind /\ e.result.outcome = "returned" /\ ~Truthy(e.result.error)

\* The field of the device holds a status other than the normal one.
Raises(device, f) == device.health[f] \notin {undefined, "NORMAL"}

\* The alerts returned for field f of the i-th device.
AlertsFor(e, i, f) ==
    {k \in DOMAIN e.result.data :
        /\ e.result.data[k].device = e.devices[i]
        /\ e.result.data[k].alert = formatAlert(f, e.devices[i].health[f])}

\* One alert for each field of fields that raises, none for the others, and
\* no alert besides these.
OneAlertPerRaisedField(e, fields) ==
    /\ \A i \in DOMAIN e.devices, f \in fields :
           Cardinality(AlertsFor(e, i, f)) = (IF Raises(e.devices[i], f) THEN 1 ELSE 0)
    /\ Len(e.result.data)
       = Cardinality({p \in (DOMAIN e.devices) \X fields : Raises(e.devices[p[1]], p[2])})

\* The health fields the claim names.
NamedHealthFields ==
    {driveHealthStatus, fanHealthStatus, temperatureHealthStatus,
     powerSupplyHealthStatus, processorHealthStatus}

\* C12 as stated: the alerts are exactly one per device and per field among
\* drive, fan, temperature, power-supply and processor whose value is not the
\* normal status.
C12_AlertsForNamedFieldsOnly ==
    DataOk(ev, "alerts") => OneAlertPerRaisedField(ev, NamedHealthFields)

\* C12 amended: the alerts are exactly one per device and per field among
\* drive, fan, temperature, voltage, processor and power-supply whose value is
\* present and not NORMAL; a field that is NORMAL or absent gives no alert.
C12_AlertsForScannedFields ==
    DataOk(ev, "alerts") => OneAlertPerRaisedField(ev, HealthFieldSet)

\* C12 witness: alerts were derived for a device whose only field that is not
\* NORMAL is the voltage field, and for it exactly one alert came back.
C12_Witness ==
    /\ DataOk(ev, "alerts")
    /\ Len(ev.devices) = 1 /\ Len(ev.result.data) = 1
    /\ {f \in HealthFieldSet : Raises(ev.devices[1], f)} = {voltageHealthStatus}

StartsWith(s, prefix) ==
    Len(s) >= Len(prefix) /\ SubSeq(s, 1, Len(prefix)) = prefix

\* The upper-case form of a character.
UpperOf(ch) ==
    IF \E k \in DOMAIN LowerChars : LowerChars[k] = ch
    THEN UpperChars[CHOOSE k \in DOMAIN LowerChars : LowerChars[k] = ch]
    ELSE ch

\* The label of a field as capitalised words separated by single spaces:
\* fanHealthStatus gives "Fan Health Status".
TitleLabel(field) == <<UpperOf(Head(field))>> \o replaceCapitals(Tail(field))

\* C13: the message of every alert begins with the label of its health field
\* written as capitalised words separated by single spaces.
C13_AlertBeginsWithTitleLabel ==
    DataOk(ev, "alerts")
    => \A k \in DOMAIN ev.result.data :
           \E f \in HealthFieldSet :
               /\ Raises(ev.result.data[k].device, f)
               /\ StartsWith(ev.result.data[k].alert, TitleLabel(f))

\* The status is the word "completed" in any mix of upper and lower case.
IsCompletedAnyCase(status) ==
    /\ Len(status) = Len(Completed)
    /\ \A i \in DOMAIN Completed : status[i] \in {Completed[i], UpperOf(Completed[i])}

\* C14: fetchActiveTasks returns exactly the tasks of the backend list whose
\* status is not "completed" compared case-insensitively, in backend order.
C14_ActiveTasksAreTheNotCompleted ==
    DataOk(ev, "tasks")
    => ev.result.data = SelectSeq(ev.tasks, LAMBDA task : ~IsCompletedAnyCase(task.status))

\* C15: the two forms of list-compute-devices, called in the same session
\* against the same backend, end the same way: both return or both raise, both
\* with or both without error, and with the same device sequence.
C15_BothFormsEquivalent ==
    ev.kind = "devices"
    => /\ ev.flat.outcome = ev.direct.outcome
       /\ Truthy(ev.flat.error) <=> Truthy(ev.direct.error)
       /\ ev.flat.data = ev.direct.data

\* The number of devices of a system (none when the field is absent).
DeviceCount(system) ==
    IF system.computeDevices = UndefinedSeq THEN 0 ELSE Len(system.computeDevices)

\* The number of devices of the first n systems.
RECURSIVE CountUpTo(_, _)
CountUpTo(systems, n) ==
    IF n = 0 THEN 0 ELSE CountUpTo(systems, n - 1) + DeviceCount(systems[n])

AtRecommended(devices) ==
    {i \in DOMAIN devices : devices[i].isFirmwareAtRecommended = "true"}

\* C17: over a device list of size n with k devices at the recommended
\* firmware, fetchFirmwareCompliance returns total = n, compliant = k and
\* nonCompliant = n - k; the two counts add up to total and neither is negative.
C17_FirmwareCountsAddUp ==
    DataOk(ev, "firmware")
    => LET summary == ev.result.data
       IN  /\ summary.total = Len(ev.devices)
           /\ summary.compliant = Cardinality(AtRecommended(ev.devices))
           /\ summary.nonCompliant = Len(ev.devices) - Cardinality(AtRecommended(ev.devices))
           /\ summary.compliant + summary.nonCompliant = summary.total
           /\ summary.nonCompliant >= 0

\* C17 witness: a summary was computed over two devices, one at the recommended
\* firmware and one without the flag.
C17_Witness ==
    /\ DataOk(ev, "firmware")
    /\ Len(ev.devices) = 2
    /\ Cardinality(AtRecommended(ev.devices)) = 1
    /\ \E i \in DOMAIN ev.devices : ev.devices[i].isFirmwareAtRecommended = undefined

\* C18: when one of the read operations of a Dashboard load returned an error
\* (or raised), the mounted Dashboard ends the load with its error banner set.
C18_FailedReadSetsDashboardError ==
    (ev.kind = "dashLoadDone" /\ ev.wasMounted /\ ev.failed # {})
    => /\ ~view.dash.loading
       /\ view.dash.error # ""

\* The views the claim names as displaying live data.
LiveViews == {"Dashboard", "SystemDetails", "ComputeDeviceList"}

\* C19: every view that displays live data has, for as long as it is mounted,
\* an active 30-second timer, and every tick of a timer calls the view's read
\* operations again.
C19_MountedViewKeepsRefreshing ==
    /\ \A v \in LiveViews : view.inst[v].mounted => view.inst[v].timers > 0
    /\ ev.kind = "tick" => ev.wasMounted

\* C20: tearing a polling view down cancels its refresh timer: an unmounted
\* view has no active timer (so no tick starts a read for it), a mounted
\* instance never has more than one, a change of systemId leaves exactly one,
\* and the calls in flight at teardown are still in flight after it.
C20_TeardownCancelsTimer ==
    /\ \A v \in PollViews :
           /\ ~view.inst[v].mounted => view.inst[v].timers = 0
           /\ view.inst[v].timers <= 1
           /\ (view.inst[v].mounted /\ SetsInterval(v)) => view.inst[v].timers = 1
    /\ ev.kind = "tick" => ev.wasMounted
    /\ ev.kind = "unmount" => calls = ev.callsBefore
    /\ ev.kind = "depsChange"
       => \A c \in BagToSet(ev.callsBefore) : CopiesIn(c, calls) >= CopiesIn(c, ev.callsBefore)

\* C20 witness: ComputeDeviceList was just torn down while a read it had
\* started was in flight, and that read is still in flight.
C20_Witness ==
    /\ ev.kind = "unmount" /\ ev.view = "ComputeDeviceList"
    /\ BagIn(ReadCall("ComputeDeviceList"), ev.callsBefore)
    /\ BagIn(ReadCall("ComputeDeviceList"), calls)
    /\ view.inst["ComputeDeviceList"].timers = 0

\* The last step completed a power command without error.
PowerCompleted(e) ==
    e.kind = "powerDone" /\ e.res.outcome = "returned" /\ ~Truthy(e.res.error)

\* C21: after every power command that completes without error, from
\* ComputeDeviceList or ComputeDeviceDetails, the view starts a refresh read of
\* its device data in the same step (it calls a read operation), whatever the
\* timer does.
C21_PowerDoneStartsRefresh ==
    PowerCompleted(ev) => ev.req.begun

\* The call was answered with a success status and a body that parsed.
ParsedOk(e) ==
    e.kind = "settled" /\ e.responded /\ ResponseOk(e.resp) /\ e.resp.body # "unparsable"

\* C22: fetchActiveTasks treats a payload that is not an array as an error: it
\* returns an empty task list together with a populated error, and it never
\* returns its empty-list value without an error.
C22_NonSequenceTasksPayloadIsError ==
    (ev.kind = "settled" /\ ev.op = "fetchActiveTasks")
    => /\ ev.result.outcome = "returned"
       /\ (ParsedOk(ev) /\ ev.resp.body # "array")
          => ev.result.data = "emptyArray" /\ Truthy(ev.result.error)
       /\ ev.result.data = "emptyArray" => Truthy(ev.result.error)

\* C22 witness: the tasks endpoint answered 200 with an object, not an array.
C22_Witness ==
    /\ ev.kind = "settled" /\ ev.op = "fetchActiveTasks"
    /\ ParsedOk(ev) /\ ev.resp.body = "objDataArray"
    /\ ev.result.data = "emptyArray"

\* C23: fetchUcpSystems returns the unwrapped payload only when the body is an
\* object whose data field is an array; for every other body and for every
\* failure of the underlying call it returns data = [] with error set, so its
\* data is an array in every outcome.
C23_SystemsDataIsAlwaysArray ==
    (ev.kind = "settled" /\ ev.op = "fetchUcpSystems")
    => /\ ev.result.outcome = "returned"
       /\ ev.result.data \in {"array", "emptyArray"}
       /\ ev.result.data = "array"
          <=> (ParsedOk(ev) /\ ev.resp.body = "objDataArray")
       /\ ev.result.data = "array" => ~Truthy(ev.result.error)
       /\ ev.result.data = "emptyArray" => Truthy(ev.result.error)

\* C23 witness: the systems endpoint answered 200 with a bare array, which is
\* not the wrapped shape, and the operation returned [] with an error.
C23_Witness ==
    /\ ev.kind = "settled" /\ ev.op = "fetchUcpSystems"
    /\ ParsedOk(ev) /\ ev.resp.body = "array"
    /\ ev.result.data = "emptyArray" /\ Truthy(ev.result.error)

\* The keys the specification lists as persisted client state.
PersistedKeys == {"apiUrl", "username", "bearerToken"}

\* C24: in every reachable state persistent storage holds at most the server
\* address, the username and the bearer token, and no stored value is the
\* password, whatever setup, authentication, calls and logouts have happened.
C24_PasswordNeverPersisted ==
    /\ DOMAIN storage \subseteq PersistedKeys
    /\ \A k \in DOMAIN storage : storage[k] \notin Passwords

\* C24 witness: a login with the submitted password has succeeded, its token
\* is stored, and the second login of the same submission (which carries the
\* password again) is in flight.
C24_Witness ==
    /\ ev.kind = "login" /\ ev.caller = "Setup" /\ ev.result.success
    /\ Has(storage, "bearerToken") /\ Has(storage, "username")
    /\ \E c \in CallsInFlight :
           c.op = "authenticate" /\ c.caller = "App" /\ c.cfg.password \in Passwords

\* The last step completed a scheduled read of the list view that succeeded:
\* the answer carried no error and held the view's system.
PollSucceeded(e) ==
    /\ e.kind = "loadDone" /\ e.purpose = "poll"
    /\ e.res.outcome = "returned" /\ ~Truthy(e.res.error)
    /\ e.payload.found

\* C25: in ComputeDeviceList a poll that succeeds, after whatever polls failed
\* before it, leaves the view showing the device list that poll returned and
\* no error state.
C25_SuccessfulPollRecovers ==
    (PollSucceeded(ev) /\ view.list.mounted)
    => /\ view.list.computeDevices = ev.payload.devices
       /\ view.list.error = ""
       /\ ListRendered

\* The two fields of the persisted session.
SessionKeys == {"bearerToken", "apiUrl"}

\* The step e is a logout action or the handling of a 401 answer.
LogoutOr401(e) ==
    \/ e.kind = "logout"
    \/ Answered(e) /\ e.resp.kind = "http" /\ e.resp.status = 401
    \/ e.kind = "login" /\ e.resp.kind = "http" /\ e.resp.status = 401

\* The step e is a call that failed: an authenticated call that ended with an
\* error or rejected, or a login that reported failure.
FailedCall(e) ==
    \/ e.kind = "settled" /\ (e.fw.outcome = "rejected" \/ Truthy(e.fw.error))
    \/ e.kind = "login" /\ ~e.result.success

\* C26: a step removes the stored bearerToken or the stored server address only
\* if it is a logout action or handles a 401 answer; a call that fails in any
\* other way (error status other than 401, network failure, unparsable body,
\* wrong shape, missing address, failed authentication) leaves both as they were.
C26_SessionDestroyedOnlyByLogoutOr401 ==
    [][ /\ (\E k \in SessionKeys : Has(storage, k) /\ ~Has(storage', k))
           => LogoutOr401(ev')
        /\ (FailedCall(ev') /\ ~LogoutOr401(ev'))
           => \A k \in SessionKeys :
                  /\ Has(storage', k) <=> Has(storage, k)
                  /\ Has(storage, k) => storage'[k] = storage[k]
      ]_vars

\* C26 witness: an authenticated call of a stored session was answered with
\* HTTP 500 and token and address are still stored.
C26_Witness ==
    /\ ev.kind = "settled" /\ ev.responded
    /\ ev.resp.kind = "http" /\ ev.resp.status = 500
    /\ Has(ev.before, "bearerToken") /\ Has(ev.before, "apiUrl")
    /\ Has(storage, "bearerToken") /\ Has(storage, "apiUrl")

\* No login request of a setup flow is outstanding.
SetupFlowSettled ==
    /\ ~isSubmitting
    /\ \A c \in CallsInFlight : c.op # "authenticate"

\* C27: once a setup flow has fully settled (the login of Setup.handleSubmit
\* and the login of the App.handleSetup it triggers), the app is configured if
\* and only if a bearerToken is stored.
C27_SettledSetupConfiguredIffToken ==
    (ev.kind = "login" /\ SetupFlowSettled)
    => (isConfigured <=> HasToken(storage))

\* The most recently issued read of the instance has been answered with the
\* devices of its system, and no read is in flight any more.
ReadsSettledLatestOk ==
    /\ view.list.mounted
    /\ \A c \in CallsInFlight : c.op # "fetchInfrastructureStatus"
    /\ view.list.latest.answered /\ view.list.latest.ok

\* C28: in ComputeDeviceList, once all reads in flight have settled, the
\* displayed device list is the one the most recently issued read returned
\* for the current systemId, in whatever order the answers arrived.
C28_DisplayedListIsLatestRead ==
    ReadsSettledLatestOk
    => /\ view.list.computeDevices = view.list.latest.devices
       /\ view.list.computeDevices.system = view.list.systemId

\* A Dashboard load has just ended and the Dashboard shows no error state.
DashLoadedWithoutError ==
    /\ ev.kind = "dashLoadDone"
    /\ view.mounted /\ ~view.dash.loading /\ view.dash.error = ""

\* The resourceIds of the devices on screen.
ShownDeviceIds ==
    {view.shown.computeDevices[i].resourceId : i \in DOMAIN view.shown.computeDevices}

\* C29: after a Dashboard load that ends without an error state,
\* firmwareCompliance.total equals the number of displayed compute devices and
\* every displayed alert refers to a displayed device.
C29_DashboardDataConsistent ==
    DashLoadedWithoutError
    => /\ view.shown.firmwareCompliance.total = Len(view.shown.computeDevices)
       /\ \A i \in DOMAIN view.shown.recentAlerts :
              view.shown.recentAlerts[i].device \in ShownDeviceIds

\* C30: in every reachable state of persistent storage a stored bearerToken
\* implies a stored server address, under any interleaving of setup,
\* authenticate, authenticated calls, 401 answers and logout actions.
C30_TokenImpliesAddress ==
    Has(storage, "bearerToken") => Has(storage, "apiUrl")

====
